---- MODULE Spec2Model ----
(***************************************************************************)
(* Session lifecycle of the Playwright MCP server: SessionManager          *)
(* (src/src/sessionManager.ts 22-191) and the connection registry and tool *)
(* handlers built on it (same file, 193-686).                              *)
(*                                                                         *)
(* Concurrency model: Node's single thread.  Every action is one           *)
(* synchronous run of code, from a call or from the completion of an       *)
(* awaited engine operation (launch, newContext, newPage, browser.close)   *)
(* up to the next awaited engine operation or the return.  An engine       *)
(* operation takes effect when its await completes.  Any call in flight    *)
(* may be resumed at any time, so awaited engine operations interleave     *)
(* freely.  An await that waits for no engine work (an async function that *)
(* ran to its end, close() on a browser that has already stopped) goes on  *)
(* within the same run.                                                    *)
(*                                                                         *)
(* ToolHandler (./toolHandler.js) is not among the sources; of it the      *)
(* model takes only what the server code relies on: close(sessionId) is    *)
(* closeSession(sessionId), and a tool that acts on the page starts with   *)
(* getOrCreateSession(sessionId, settings).  The key a tool handler looks  *)
(* up, (context.session as any).id, is given by the framework and is an    *)
(* input here.                                                             *)
(***************************************************************************)
EXTENDS Integers, Sequences, FiniteSets, TLC

\* ---------------------------------------------------------------- bounds
MaxCalls == 2            \* calls in flight at once
MaxSids == 2             \* distinct session ids callers use
MaxObjsPerSid == 2       \* SessionState objects of one id still referred to
MaxBrowsersPerObj == 2   \* browsers of one SessionState still referred to
MaxTime == 2             \* last tick of the clock
MaxCap == 2              \* largest maxSessions option tried
OverlapCap == 1          \* maxSessions where calls overlap
MaxClients == 2          \* registry entries at once

\* options.sessionTimeout, in clock ticks
sessionTimeout == 1

Calls == 1..MaxCalls
ClientIds == 1..MaxClients
\* what a tool handler may find in context.session.id: 0 is a key with no entry
Keys == {0} \cup ClientIds
SessionIds == 1..MaxSids
Objs == 1..(MaxSids * MaxObjsPerSid)
Browsers == 1..(MaxSids * MaxObjsPerSid * MaxBrowsersPerObj)
\* A session holds at most one page, a page of a browser launched for it, so
\* two page identities per browser tell a new page from the one it replaces.
PagesPerBrowser == 2
Pages == 1..(MaxSids * MaxObjsPerSid * MaxBrowsersPerObj * PagesPerBrowser)
BrowserTypes == {"chromium", "firefox", "webkit"}
\* browserSettings?.browserType as callers pass it; "none" is absent
SettingsInputs == {"none", "firefox"}

VARIABLES
  maxSessions,   \* this.maxSessions
  sessions,      \* this.sessions: the Map, as its entries in insertion order
  objs,          \* the SessionState objects, by identity
  browsers,      \* the engine's Browser objects
  listeners,     \* per browser: the run of its "disconnected" listener
  closedPages,   \* pages closed from outside
  registry,      \* the server's sessions Map: clientId -> SessionMetadata
  cleanup,       \* clients a setImmediate callback of "disconnect" will close
  leaked,        \* the last step left a running browser out of the code's reach
  now,           \* Date.now()
  procs,         \* the calls in flight, each at its awaited operation
  emitted,       \* sessionClosed events emitted by the last step
  ret,           \* what returned or threw in the last step
  shutdown       \* gracefulShutdown: where it stands

vars == <<maxSessions, sessions, objs, browsers, listeners, closedPages,
          registry, cleanup, leaked, now, procs, emitted, ret, shutdown>>

\* ------------------------------------------------------------ data shapes
NoObj == [used |-> FALSE, browser |-> 0, page |-> 0,
          currentBrowserType |-> "chromium", lastActivity |-> 0]
NoBrowser == [st |-> "none", kind |-> "chromium", owner |-> 0, ctx |-> FALSE]
\* listeners[b]: the browser whose close() the listener of b awaits, or 0
NoListener == 0
\* tool: the server code the call returns to ("none": a direct caller);
\* client: the registry key that server code holds
Idle == [op |-> "idle", pc |-> "idle", sid |-> 0, obj |-> 0, nobj |-> 0,
         bt |-> "none", lb |-> "none", b |-> 0, it |-> 0, snow |-> 0,
         cur |-> 0, cobj |-> 0, curLA |-> 0, tool |-> "none", client |-> 0]
NoRet == [op |-> "none", res |-> "none", sid |-> 0, obj |-> 0, bt |-> "none",
          client |-> 0]
\* registry[c]: sessionId 0 when the Map has no entry for c
NoEntry == [sessionId |-> 0, connected |-> FALSE]

\* The state a synchronous run works on.
Cur == [ss |-> sessions, ob |-> objs, br |-> browsers, ls |-> listeners,
        cp |-> closedPages, rg |-> registry, cl |-> cleanup, lk |-> FALSE,
        pr |-> procs, em |-> <<>>, rt |-> NoRet, sd |-> shutdown]

PageBrowser(pg) == ((pg - 1) \div PagesPerBrowser) + 1

\* The identities a SessionState made for sessionId sid can take.
ObjsOf(sid) == ((sid - 1) * MaxObjsPerSid + 1)..(sid * MaxObjsPerSid)

\* The identities a Browser launched for SessionState o can take.
BrowsersOf(o) == ((o - 1) * MaxBrowsersPerObj + 1)..(o * MaxBrowsersPerObj)

\* Garbage collection.  A SessionState that neither the map nor a call
\* refers to is out of the code's reach for good, and so is a Browser that
\* no reachable SessionState owns or holds and no call awaits: both are
\* forgotten and their identities are free again.  A browser forgotten while
\* it runs has leaked.
LiveObjs(m) ==
  {o \in Objs :
     \/ \E i \in 1..Len(m.ss) : m.ss[i].obj = o
     \/ \E p \in Calls : o \in {m.pr[p].obj, m.pr[p].cobj, m.pr[p].nobj}
     \/ m.rt.obj = o}

LiveListener(m, lo, b) == m.ls[b] # 0 /\ m.br[b].owner \in lo

LiveBrowsers(m, lo) ==
  {b \in Browsers :
     /\ m.br[b].st # "none"
     /\ \/ m.br[b].st = "open" /\ m.br[b].owner \in lo
        \/ LiveListener(m, lo, b)
        \/ \E o \in lo :
             \/ m.ob[o].browser = b
             \/ m.ob[o].page # 0 /\ PageBrowser(m.ob[o].page) = b
        \/ \E p \in Calls : m.pr[p].b = b
        \/ \E c \in Browsers : LiveListener(m, lo, c) /\ m.ls[c] = b}

\* A call keeps only the locals its awaited operation still reads.
LiveLocals(q) ==
  LET q1 == IF q.pc \in {"sw_close", "ca_close"} THEN q
            ELSE [q EXCEPT !.it = 0, !.snow = 0, !.cur = 0, !.cobj = 0,
                           !.curLA = 0]
      q2 == IF q1.pc = "eb_launch" THEN q1 ELSE [q1 EXCEPT !.lb = "none"]
  IN IF q2.obj # 0 THEN [q2 EXCEPT !.nobj = 0] ELSE q2

ForgetBut(m, lo, lb) ==
  [m EXCEPT
     !.ob = [o \in Objs |-> IF o \in lo THEN m.ob[o] ELSE NoObj],
     !.br = [b \in Browsers |-> IF b \in lb THEN m.br[b] ELSE NoBrowser],
     !.ls = [b \in Browsers |->
               IF b \in lb /\ LiveListener(m, lo, b)
               THEN m.ls[b] ELSE NoListener],
     !.lk = m.lk \/ \E b \in Browsers \ lb : m.br[b].st = "open",
     !.cp = {pg \in m.cp :
               /\ m.br[PageBrowser(pg)].st = "open"
               /\ \E o \in lo : m.ob[o].page = pg}]

Forget(m) ==
  CHOOSE r \in
    UNION {UNION {{ForgetBut(m1, lo, lb) : lb \in {LiveBrowsers(m1, lo)}} :
                    lo \in {LiveObjs(m1)}} :
             m1 \in {[m EXCEPT !.pr = [p \in Calls |-> LiveLocals(m.pr[p])]]}}
    : TRUE

\* Identities carry no meaning, so what is kept is renumbered: among the
\* SessionStates of one id the one in the map comes first, among the
\* browsers of one SessionState its session.browser comes first, and the one
\* page a browser still has takes the browser's first page identity.
SidOfObj(o) == ((o - 1) \div MaxObjsPerSid) + 1
ObjOfBrowser(b) == ((b - 1) \div MaxBrowsersPerObj) + 1

ObjKey(m, o) == IF \E i \in 1..Len(m.ss) : m.ss[i].obj = o THEN 0 ELSE 1
NewObj(m, o) ==
  IF o = 0 THEN 0
  ELSE (SidOfObj(o) - 1) * MaxObjsPerSid + 1 + Cardinality(
         {c \in ObjsOf(SidOfObj(o)) :
            /\ m.ob[c].used
            /\ \/ ObjKey(m, c) < ObjKey(m, o)
               \/ ObjKey(m, c) = ObjKey(m, o) /\ c < o})

BrowserKey(m, b) == IF m.ob[ObjOfBrowser(b)].browser = b THEN 0 ELSE 1
BrowserRank(m, b) ==
  1 + Cardinality(
        {c \in BrowsersOf(ObjOfBrowser(b)) :
           /\ m.br[c].st # "none"
           /\ \/ BrowserKey(m, c) < BrowserKey(m, b)
              \/ BrowserKey(m, c) = BrowserKey(m, b) /\ c < b})

ObjMap(m) == [o \in {0} \cup Objs |-> NewObj(m, o)]
BrowserMap(m, no) ==
  [b \in {0} \cup Browsers |->
     IF b = 0 THEN 0
     ELSE (no[ObjOfBrowser(b)] - 1) * MaxBrowsersPerObj + BrowserRank(m, b)]
PageMap(nb) ==
  [pg \in {0} \cup Pages |->
     IF pg = 0 THEN 0 ELSE (nb[PageBrowser(pg)] - 1) * PagesPerBrowser + 1]
OldObjMap(m, no) ==
  [n \in Objs |->
     IF \E o \in Objs : m.ob[o].used /\ no[o] = n
     THEN CHOOSE o \in Objs : m.ob[o].used /\ no[o] = n ELSE 0]
OldBrowserMap(m, nb) ==
  [n \in Browsers |->
     IF \E b \in Browsers : m.br[b].st # "none" /\ nb[b] = n
     THEN CHOOSE b \in Browsers : m.br[b].st # "none" /\ nb[b] = n ELSE 0]

\* Each map is worked out once.
Maps(m) ==
  UNION {UNION {{[no |-> no, nb |-> nb, np |-> PageMap(nb),
                  oldO |-> OldObjMap(m, no), oldB |-> OldBrowserMap(m, nb)]} :
                  nb \in {BrowserMap(m, no)}} :
           no \in {ObjMap(m)}}

RenumberBy(m, k) ==
  [m EXCEPT
     !.ss = [i \in 1..Len(m.ss) |->
               [m.ss[i] EXCEPT !.obj = k.no[m.ss[i].obj]]],
     !.ob = [n \in Objs |->
               IF k.oldO[n] = 0 THEN NoObj
               ELSE [m.ob[k.oldO[n]] EXCEPT
                       !.browser = k.nb[m.ob[k.oldO[n]].browser],
                       !.page = k.np[m.ob[k.oldO[n]].page]]],
     !.br = [n \in Browsers |->
               IF k.oldB[n] = 0 THEN NoBrowser
               ELSE [m.br[k.oldB[n]] EXCEPT
                       !.owner = k.no[m.br[k.oldB[n]].owner]]],
     !.ls = [n \in Browsers |->
               IF k.oldB[n] = 0 THEN NoListener ELSE k.nb[m.ls[k.oldB[n]]]],
     !.cp = {k.np[pg] : pg \in m.cp},
     !.pr = [p \in Calls |->
               [m.pr[p] EXCEPT !.obj = k.no[m.pr[p].obj],
                               !.cobj = k.no[m.pr[p].cobj],
                               !.nobj = k.no[m.pr[p].nobj],
                               !.b = k.nb[m.pr[p].b]]],
     !.rt = [m.rt EXCEPT !.obj = k.no[m.rt.obj]]]

Renumber(m) == CHOOSE r \in {RenumberBy(m, k) : k \in Maps(m)} : TRUE

\* The slots of the calls in flight are interchangeable as well: calls are
\* kept in the order of their awaited operation, idle slots last.
PcOrder == <<"eb_launch", "eb_ctx", "eb_page", "eb_heal_ctx", "eb_heal_page",
             "eb_catch", "eb_switch", "sw_close", "ca_close", "cl_close",
             "idle">>
SlotKey(q) ==
  ((CHOOSE i \in 1..Len(PcOrder) : PcOrder[i] = q.pc) * 100 + q.obj) * 100 + q.b
SlotOf(key, p) ==
  1 + Cardinality({q \in Calls :
                     key[q] < key[p] \/ (key[q] = key[p] /\ q < p)})
Reslot(m) ==
  CHOOSE r \in
    {[m EXCEPT !.pr = [n \in Calls |->
                         m.pr[CHOOSE p \in Calls : SlotOf(key, p) = n]]] :
       key \in {[p \in Calls |-> SlotKey(m.pr[p])]}} : TRUE

Collect(m) ==
  CHOOSE r \in {Reslot(m2) : m2 \in {Renumber(m1) : m1 \in {Forget(m)}}} : TRUE

Commit(m0) ==
  \E m \in {Collect(m0)} :
     /\ sessions' = m.ss
     /\ objs' = m.ob
     /\ browsers' = m.br
     /\ listeners' = m.ls
     /\ closedPages' = m.cp
     /\ registry' = m.rg
     /\ cleanup' = m.cl
     /\ leaked' = m.lk
     /\ procs' = m.pr
     /\ emitted' = m.em
     /\ ret' = m.rt
     /\ shutdown' = m.sd
     /\ UNCHANGED <<maxSessions, now>>

\* ------------------------------------------------------------- the Map
Index(ss, sid) ==
  IF \E i \in 1..Len(ss) : ss[i].id = sid
  THEN CHOOSE i \in 1..Len(ss) : ss[i].id = sid
  ELSE 0

Has(ss, sid) == Index(ss, sid) # 0

Get(ss, sid) == ss[Index(ss, sid)].obj

RemoveAt(ss, i) == SubSeq(ss, 1, i - 1) \o SubSeq(ss, i + 1, Len(ss))

IterPcs == {"sw_close", "ca_close"}

\* this.sessions.delete(sessionId): live iterators past the entry move back
\* with it.
MapDelete(m, sid) ==
  LET i == Index(m.ss, sid)
  IN IF i = 0 THEN m
     ELSE [m EXCEPT
             !.ss = RemoveAt(m.ss, i),
             !.pr = [p \in Calls |->
                       IF m.pr[p].pc \in IterPcs /\ m.pr[p].it > i
                       THEN [m.pr[p] EXCEPT !.it = m.pr[p].it - 1]
                       ELSE m.pr[p]]]

\* this.emit("sessionClosed", sessionId)
EmitClosed(m, sid) == [m EXCEPT !.em = Append(m.em, sid)]

\* ------------------------------------------------------------ the engine
IsConnected(m, b) == m.br[b].st = "open"

IsClosed(m, pg) == pg \in m.cp \/ ~IsConnected(m, PageBrowser(pg))

FreshBrowser(m, o) ==
  IF \E b \in BrowsersOf(o) : m.br[b].st = "none"
  THEN CHOOSE b \in BrowsersOf(o) :
         /\ m.br[b].st = "none"
         /\ \A c \in BrowsersOf(o) : c < b => m.br[c].st # "none"
  ELSE 0

FreshObj(ob, sid) ==
  IF \E o \in ObjsOf(sid) : ~ob[o].used
  THEN CHOOSE o \in ObjsOf(sid) :
         ~ob[o].used /\ \A c \in ObjsOf(sid) : c < o => ob[c].used
  ELSE 0

\* session.browser = undefined; session.page = undefined
Cold(m, o) == [m EXCEPT !.ob[o].browser = 0, !.ob[o].page = 0]

\* a browser that stops with no "disconnected" listener on it
BrowserStopsUnheard(m, b) ==
  IF b = 0 \/ ~IsConnected(m, b) THEN m
  ELSE [m EXCEPT !.br[b].st = "closed", !.br[b].ctx = FALSE]

\* The browser stops (browser.close() completing, or a crash).  Its
\* "disconnected" event runs the listener of lines 118-121 at once:
\* cleanupSession(session), lines 149-160, which waits only when
\* session.browser is another browser that still runs.
BrowserStops(m, b) ==
  IF b = 0 \/ ~IsConnected(m, b) THEN m
  ELSE LET o == m.br[b].owner
           tgt == m.ob[o].browser
           m1 == [m EXCEPT !.br[b].st = "closed", !.br[b].ctx = FALSE]
       IN IF tgt # 0 /\ IsConnected(m1, tgt)
          THEN [m1 EXCEPT !.ls[b] = tgt]
          ELSE Cold(m1, o)

\* ------------------------------------------------- returning and waiting
\* What the server code does once the ToolHandler call it awaits is over.
\* A page tool (lines 437-450): the result, or the error thrown on.
\* playwright_close (lines 664-671) and the disconnect cleanup (lines
\* 257-258): sessions.delete(clientId) after toolHandler.close().
\* gracefulShutdown (lines 320-333): sessions.delete(clientId); once every
\* close it started has settled, process.exit(0).
ToolReturn(m, self, res) ==
  LET p == m.pr[self]
      m1 == [m EXCEPT !.pr[self] = Idle]
  IN CASE p.tool = "tool" ->
            [m1 EXCEPT !.rt = [op |-> "tool", res |-> res, sid |-> p.sid,
                               obj |-> p.obj, bt |-> p.bt,
                               client |-> p.client]]
       [] p.tool = "playwright_close" ->
            [m1 EXCEPT !.rg[p.client] = NoEntry,
                       !.rt = [op |-> "playwright_close", res |-> "success",
                               sid |-> p.sid, obj |-> 0, bt |-> "none",
                               client |-> p.client]]
       [] p.tool = "shutdown" ->
            [m1 EXCEPT !.rg[p.client] = NoEntry,
                       !.sd = IF /\ m.sd = "closing"
                                 /\ \A q \in Calls \ {self} :
                                      m.pr[q].tool # "shutdown"
                              THEN "exited" ELSE m.sd]
       [] OTHER ->
            [m1 EXCEPT !.rg[p.client] = NoEntry]

\* The call of slot self returns or throws res; the slot is free again.
Return(m, self, res) ==
  LET p == m.pr[self]
  IN IF p.tool = "none"
     THEN [m EXCEPT !.pr[self] = Idle,
                    !.rt = [op |-> p.op, res |-> res, sid |-> p.sid,
                            obj |-> IF p.op = "goc" THEN p.obj ELSE 0,
                            bt |-> p.bt, client |-> 0]]
     ELSE ToolReturn(m, self, res)

\* The call of slot self awaits an engine operation on browser b.
Suspend(m, self, pc, b) == [m EXCEPT !.pr[self].pc = pc, !.pr[self].b = b]

\* ---------------------------------------------------------- ensureBrowser
\* a catch that rethrows without cleanupSession
EnsureBrowserRethrow(m, self) == Return(m, self, "error")

\* a catch that also takes the session out of the map when the launch
\* itself failed
EnsureBrowserCatchRemoving(m, self) ==
  LET o == m.pr[self].obj
  IN IF m.ob[o].browser # 0
     THEN Suspend(m, self, "eb_catch", m.ob[o].browser)
     ELSE Return(MapDelete(Cold(m, o), m.pr[self].sid), self, "error")

\* lines 142-146: catch (error) { await this.cleanupSession(session); throw }
EnsureBrowserCatch(m, self) ==
  LET o == m.pr[self].obj
  IN IF m.ob[o].browser # 0
     THEN Suspend(m, self, "eb_catch", m.ob[o].browser)
     ELSE Return(Cold(m, o), self, "error")

\* a closed page answered by tearing the browser down and launching anew
EnsureBrowserVerifyRelaunch(m, self) ==
  LET o == m.pr[self].obj
      pg == m.ob[o].page
  IN IF pg = 0 \/ IsClosed(m, pg)
     THEN Suspend([m EXCEPT !.pr[self].lb = m.ob[o].currentBrowserType],
                  self, "eb_switch", m.ob[o].browser)
     ELSE Return(m, self, "ok")

\* lines 135-141: verify the page; open one if it is missing or closed
EnsureBrowserVerify(m, self) ==
  LET o == m.pr[self].obj
      pg == m.ob[o].page
      b == m.ob[o].browser
  IN IF pg = 0 \/ IsClosed(m, pg)
     THEN IF b = 0
          THEN EnsureBrowserCatch(m, self)   \* session.browser.contexts(): TypeError
          ELSE IF IsConnected(m, b) /\ m.br[b].ctx
               THEN Suspend(m, self, "eb_heal_page", b)
               ELSE Suspend(m, self, "eb_heal_ctx", b)
     ELSE Return(m, self, "ok")

\* line 87: browserType = "chromium" when the settings give none
DefaultBrowserType(bt) == IF bt = "none" THEN "chromium" ELSE bt

\* lines 100-112: the engine the switch picks
EngineOf(browserType) ==
  CASE browserType = "firefox" -> "firefox"
    [] browserType = "webkit" -> "webkit"
    [] OTHER -> "chromium"

\* the type-change teardown tested ahead of if (!session.browser)
EnsureBrowserLaunchSwitching(m, self) ==
  LET p == m.pr[self]
      o == p.obj
      browserType == DefaultBrowserType(p.bt)
      m1 == [m EXCEPT !.pr[self].lb = browserType]
  IN IF m.ob[o].browser # 0 /\ m.ob[o].currentBrowserType # browserType
     THEN Suspend(m1, self, "eb_switch", m.ob[o].browser)
     ELSE IF m.ob[o].browser = 0
          THEN Suspend(m1, self, "eb_launch", 0)
          ELSE EnsureBrowserVerify(m, self)

\* lines 81-114: launch when the session has no browser.  The type-change
\* teardown of lines 91-93 sits inside if (!session.browser).
EnsureBrowserLaunch(m, self) ==
  LET p == m.pr[self]
      o == p.obj
      browserType == DefaultBrowserType(p.bt)
      m1 == [m EXCEPT !.pr[self].lb = browserType]
  IN IF m.ob[o].browser = 0
     THEN IF m.ob[o].browser # 0 /\ m.ob[o].currentBrowserType # browserType
          THEN Suspend(m1, self, "eb_switch", m.ob[o].browser)
          ELSE Suspend(m1, self, "eb_launch", 0)
     ELSE EnsureBrowserVerify(m, self)

\* lines 75-79: a browser that is set but disconnected is torn down first
\* (its close() has nothing to wait for)
EnsureBrowser(m, self) ==
  LET o == m.pr[self].obj
      b == m.ob[o].browser
  IN IF b # 0 /\ ~IsConnected(m, b)
     THEN EnsureBrowserLaunch(Cold(m, o), self)
     ELSE EnsureBrowserLaunch(m, self)

\* lines 95-114 after the close awaited at line 92: on to the launch
AfterSwitchCleanup(m, self) ==
  LET p == m.pr[self]
  IN Suspend(Cold(BrowserStops(m, p.b), p.obj), self, "eb_launch", 0)

\* a launch that hands out a browser already running for some session,
\* and starts one only when none runs
AfterLaunchPooled(m, self, ok) ==
  LET p == m.pr[self]
      o == p.obj
      running == {x \in Browsers : m.br[x].st = "open"}
      b == IF running # {} THEN CHOOSE x \in running : TRUE
           ELSE FreshBrowser(m, o)
  IN IF ok /\ b # 0
     THEN Suspend(
            [m EXCEPT !.br[b] = IF running # {} THEN m.br[b]
                                ELSE [st |-> "open", kind |-> EngineOf(p.lb),
                                      owner |-> o, ctx |-> FALSE],
                      !.ob[o].browser = b,
                      !.ob[o].currentBrowserType = p.lb],
            self, "eb_ctx", b)
     ELSE EnsureBrowserCatch(m, self)

\* a launch that leaves line 115 out: the kind is not recorded
AfterLaunchKindUnrecorded(m, self, ok) ==
  LET p == m.pr[self]
      o == p.obj
      b == FreshBrowser(m, o)
  IN IF ok /\ b # 0
     THEN Suspend(
            [m EXCEPT !.br[b] = [st |-> "open", kind |-> EngineOf(p.lb),
                                 owner |-> o, ctx |-> FALSE],
                      !.ob[o].browser = b],
            self, "eb_ctx", b)
     ELSE EnsureBrowserCatch(m, self)

\* lines 114-123: the launch completed (or threw); ok is the engine's answer
AfterLaunch(m, self, ok) ==
  LET p == m.pr[self]
      o == p.obj
      b == FreshBrowser(m, o)
  IN IF ok /\ b # 0
     THEN Suspend(
            [m EXCEPT !.br[b] = [st |-> "open", kind |-> EngineOf(p.lb),
                                 owner |-> o, ctx |-> FALSE],
                      !.ob[o].browser = b,
                      !.ob[o].currentBrowserType = p.lb],
            self, "eb_ctx", b)
     ELSE EnsureBrowserCatch(m, self)

\* line 123 completed: the context exists; line 132 asks for its page
AfterNewContext(m, self, ok) ==
  LET b == m.pr[self].b
  IN IF ok /\ IsConnected(m, b)
     THEN Suspend([m EXCEPT !.br[b].ctx = TRUE], self, "eb_page", b)
     ELSE EnsureBrowserCatch(m, self)

\* context.newPage() on browser b: the page, or 0 when it throws
OpenPage(m, b, ok) ==
  IF ok /\ IsConnected(m, b)
  THEN CHOOSE pg \in Pages :
         /\ PageBrowser(pg) = b
         /\ \A o \in Objs : m.ob[o].page # pg
         /\ \A c \in Pages :
              PageBrowser(c) = b /\ c < pg => \E o \in Objs : m.ob[o].page = c
  ELSE 0

\* line 132 completed: session.page = the new page; then lines 135-141
AfterNewPage(m, self, ok) ==
  LET p == m.pr[self]
      pg == OpenPage(m, p.b, ok)
  IN IF pg # 0
     THEN EnsureBrowserVerify(
            [m EXCEPT !.ob[p.obj].page = pg, !.cp = m.cp \ {pg}], self)
     ELSE EnsureBrowserCatch(m, self)

\* line 139 completed: the browser had no context and got a new one
AfterHealContext(m, self, ok) ==
  LET b == m.pr[self].b
  IN IF ok /\ IsConnected(m, b)
     THEN Suspend([m EXCEPT !.br[b].ctx = TRUE], self, "eb_heal_page", b)
     ELSE EnsureBrowserCatch(m, self)

\* line 140 completed: session.page = the new page; ensureBrowser returns
AfterHealPage(m, self, ok) ==
  LET p == m.pr[self]
      pg == OpenPage(m, p.b, ok)
  IN IF pg # 0
     THEN Return([m EXCEPT !.ob[p.obj].page = pg, !.cp = m.cp \ {pg}],
                 self, "ok")
     ELSE EnsureBrowserCatch(m, self)

\* lines 144-145 after the close awaited in the catch: cold, and rethrow
AfterCatchCleanup(m, self) ==
  LET p == m.pr[self]
  IN Return(Cold(BrowserStops(m, p.b), p.obj), self, "error")

\* ----------------------------------------------------- getOrCreateSession
\* lines 62-66: stamp lastActivity, then ensureBrowser
StampAndEnsure(m, self) ==
  LET o == m.pr[self].obj
  IN EnsureBrowser([m EXCEPT !.ob[o].lastActivity = now], self)

\* lines 54-59: the new SessionState, set in the map under sessionId
CreateSession(m, self) ==
  LET p == m.pr[self]
      o == p.nobj
  IN StampAndEnsure(
       [m EXCEPT !.ob[o] = [used |-> TRUE, browser |-> 0, page |-> 0,
                            currentBrowserType |-> DefaultBrowserType(p.bt),
                            lastActivity |-> now],
                 !.ss = Append(m.ss, [id |-> p.sid, obj |-> o]),
                 !.pr[self].obj = o], self)

\* a limit tested one too late
AtCapacityOffByOne(m) == Len(m.ss) > maxSessions

\* line 44 and line 49: this.sessions.size >= this.maxSessions
AtCapacity(m) == Len(m.ss) >= maxSessions

\* the SessionState set in the map before the limit is tested again
RecheckCapacityAfterSet(m, self) ==
  LET p == m.pr[self]
      o == p.nobj
  IN IF AtCapacity(m)
     THEN Return([m EXCEPT !.ob[o] = [used |-> TRUE, browser |-> 0,
                                      page |-> 0,
                                      currentBrowserType |->
                                        DefaultBrowserType(p.bt),
                                      lastActivity |-> now],
                           !.ss = Append(m.ss, [id |-> p.sid, obj |-> o])],
                 self, "capacity")
     ELSE CreateSession(m, self)

\* lines 48-52 after the sweep of line 46: still full throws
RecheckCapacity(m, self) ==
  IF AtCapacity(m)
  THEN Return([m EXCEPT !.ob[m.pr[self].nobj].used = FALSE], self, "capacity")
  ELSE CreateSession(m, self)

\* ------------------------------------------------- cleanupInactiveSessions
\* a session that is inactive already at the threshold
IsInactiveAtTimeout(n, lastActivity) == n - lastActivity >= sessionTimeout

\* the comparison turned round
IsInactiveInverted(n, lastActivity) == n - lastActivity < sessionTimeout

\* line 166: now - session.lastActivity > this.sessionTimeout
IsInactive(n, lastActivity) == n - lastActivity > sessionTimeout

\* line 173: the sweep is over; the awaiting getOrCreateSession goes on
AfterSweep(m, self) ==
  IF m.pr[self].op = "sweep"
  THEN Return(m, self, "done")
  ELSE RecheckCapacity(m, self)

\* lines 165-172: the loop over the live entries, up to the next awaited
\* browser.close() (a session without a browser is removed without a wait)
RECURSIVE SweepLoop(_, _)
SweepLoop(m, self) ==
  LET p == m.pr[self]
  IN IF p.it > Len(m.ss)
     THEN AfterSweep(m, self)
     ELSE LET e == m.ss[p.it]
              o == e.obj
              la == m.ob[o].lastActivity
              m1 == [m EXCEPT !.pr[self].it = p.it + 1]
          IN IF IsInactive(p.snow, la)
             THEN IF m.ob[o].browser # 0
                  THEN Suspend([m1 EXCEPT !.pr[self].cur = e.id,
                                          !.pr[self].cobj = o,
                                          !.pr[self].curLA = la],
                               self, "sw_close", m.ob[o].browser)
                  ELSE SweepLoop(
                         EmitClosed(
                           MapDelete(Cold(m1, o), e.id),
                           e.id), self)
             ELSE SweepLoop(m1, self)

\* lines 158-159 and 169-170 after the close awaited at line 168, then on
AfterSweepClose(m, self) ==
  LET p == m.pr[self]
      m1 == Cold(BrowserStops(m, p.b), p.cobj)
  IN SweepLoop(
       EmitClosed(MapDelete(m1, p.cur), p.cur), self)

\* ------------------------------------------------------- closeAllSessions
\* lines 185-189: the loop over the live entries
RECURSIVE CloseAllLoop(_, _)
CloseAllLoop(m, self) ==
  LET p == m.pr[self]
  IN IF p.it > Len(m.ss)
     THEN Return(m, self, "done")
     ELSE LET e == m.ss[p.it]
              o == e.obj
              m1 == [m EXCEPT !.pr[self].it = p.it + 1]
          IN IF m.ob[o].browser # 0
             THEN Suspend([m1 EXCEPT !.pr[self].cur = e.id,
                                     !.pr[self].cobj = o],
                          self, "ca_close", m.ob[o].browser)
             ELSE CloseAllLoop(
                    EmitClosed(MapDelete(Cold(m1, o), e.id), e.id),
                    self)

\* lines 158-159 and 187-188 after the close awaited at line 186, then on
AfterCloseAllClose(m, self) ==
  LET p == m.pr[self]
      m1 == Cold(BrowserStops(m, p.b), p.cobj)
  IN CloseAllLoop(EmitClosed(MapDelete(m1, p.cur), p.cur), self)

\* ----------------------------------------------------------- closeSession
\* lines 179-180: delete the entry, emit sessionClosed
DeleteAndEmit(m, self) ==
  LET p == m.pr[self]
  IN Return(EmitClosed(MapDelete(m, p.sid), p.sid), self, "closed")

\* sessionClosed emitted outside the if (session)
CloseSessionBodyEmits(m, self) ==
  LET p == m.pr[self]
  IN IF Has(m.ss, p.sid)
     THEN LET o == Get(m.ss, p.sid)
              m1 == [m EXCEPT !.pr[self].obj = o]
          IN IF m.ob[o].browser # 0
             THEN Suspend(m1, self, "cl_close", m.ob[o].browser)
             ELSE DeleteAndEmit(Cold(m1, o), self)
     ELSE Return(EmitClosed(m, p.sid), self, "noop")

\* lines 176-181
CloseSessionBody(m, self) ==
  LET p == m.pr[self]
  IN IF Has(m.ss, p.sid)
     THEN LET o == Get(m.ss, p.sid)
              m1 == [m EXCEPT !.pr[self].obj = o]
          IN IF m.ob[o].browser # 0
             THEN Suspend(m1, self, "cl_close", m.ob[o].browser)
             ELSE DeleteAndEmit(Cold(m1, o), self)
     ELSE Return(m, self, "noop")

\* lines 158-159 after the close awaited at line 178, then 179-180
AfterCloseSessionClose(m, self) ==
  LET p == m.pr[self]
  IN DeleteAndEmit(Cold(BrowserStops(m, p.b), p.obj), self)

\* ---------------------------------------------------------------- actions
\* A new call takes the lowest free slot.
FreeSlot(self) ==
  /\ procs[self].op = "idle"
  /\ \A q \in Calls : q < self => procs[q].op # "idle"

IsWarm(m, o) ==
  /\ m.ob[o].browser # 0
  /\ IsConnected(m, m.ob[o].browser)
  /\ m.ob[o].page # 0
  /\ ~IsClosed(m, m.ob[o].page)

\* getOrCreateSession(sessionId, browserSettings), lines 36-69, up to its
\* first awaited engine operation, called for the server code tool
StartGetOrCreate(m, self, sid, bt, tool, client) ==
  LET has == Has(m.ss, sid)
      o == IF has THEN Get(m.ss, sid) ELSE FreshObj(m.ob, sid)
      p0 == [Idle EXCEPT !.op = "goc", !.pc = "sw_close", !.sid = sid,
                         !.bt = bt, !.tool = tool, !.client = client,
                         !.obj = IF has THEN o ELSE 0,
                         !.nobj = IF has THEN 0 ELSE o]
      m0 == [m EXCEPT !.pr[self] = p0, !.ob[o].used = TRUE]
  IN IF has THEN StampAndEnsure(m0, self)
     ELSE IF AtCapacity(m0)
          THEN SweepLoop([m0 EXCEPT !.pr[self].snow = now,
                                    !.pr[self].it = 1], self)
          ELSE CreateSession(m0, self)

\* a SessionState identity is at hand for the call
CanStart(sid) == Has(sessions, sid) \/ FreshObj(objs, sid) # 0

GetOrCreateSession(self, sid, bt) ==
  /\ FreeSlot(self)
  /\ CanStart(sid)
  /\ Commit(StartGetOrCreate(Cur, self, sid, bt, "none", 0))

\* the setInterval sweep of line 33: cleanupInactiveSessions(), lines 162-173
CleanupInactiveSessions(self) ==
  /\ FreeSlot(self)
  /\ Commit(SweepLoop([Cur EXCEPT !.pr[self] =
                         [Idle EXCEPT !.op = "sweep", !.pc = "sw_close",
                                      !.snow = now, !.it = 1]], self))

\* closeSession(sessionId), lines 175-182, up to its first awaited engine
\* operation, called for the server code tool
StartCloseSession(m, self, sid, tool, client) ==
  CloseSessionBody([m EXCEPT !.pr[self] =
                      [Idle EXCEPT !.op = "close", !.pc = "cl_close",
                                   !.sid = sid, !.tool = tool,
                                   !.client = client]], self)

CloseSession(self, sid) ==
  /\ FreeSlot(self)
  /\ Commit(StartCloseSession(Cur, self, sid, "none", 0))

\* closeAllSessions(), lines 184-190
CloseAllSessions(self) ==
  /\ FreeSlot(self)
  /\ Commit(CloseAllLoop([Cur EXCEPT !.pr[self] =
                            [Idle EXCEPT !.op = "closeAll", !.pc = "ca_close",
                                         !.it = 1]], self))

\* the awaited launch of line 114 completes
ResumeLaunch(self, ok) ==
  /\ procs[self].pc = "eb_launch"
  /\ Commit(AfterLaunch(Cur, self, ok))

\* the awaited newContext of line 123 completes
ResumeNewContext(self, ok) ==
  /\ procs[self].pc = "eb_ctx"
  /\ Commit(AfterNewContext(Cur, self, ok))

\* the awaited newPage of line 132 completes
ResumeNewPage(self, ok) ==
  /\ procs[self].pc = "eb_page"
  /\ Commit(AfterNewPage(Cur, self, ok))

\* the awaited newContext of line 139 completes
ResumeHealContext(self, ok) ==
  /\ procs[self].pc = "eb_heal_ctx"
  /\ Commit(AfterHealContext(Cur, self, ok))

\* the awaited newPage of line 140 completes
ResumeHealPage(self, ok) ==
  /\ procs[self].pc = "eb_heal_page"
  /\ Commit(AfterHealPage(Cur, self, ok))

\* a cleanupSession awaited inside ensureBrowser (line 92, line 144)
\* completes
ResumeEnsureCleanup(self) ==
  /\ procs[self].pc \in {"eb_switch", "eb_catch"}
  /\ Commit(IF procs[self].pc = "eb_switch"
            THEN AfterSwitchCleanup(Cur, self)
            ELSE AfterCatchCleanup(Cur, self))

\* the awaited cleanupSession of line 168 completes
ResumeSweepClose(self) ==
  /\ procs[self].pc = "sw_close"
  /\ Commit(AfterSweepClose(Cur, self))

\* the awaited cleanupSession of line 186 completes
ResumeCloseAllClose(self) ==
  /\ procs[self].pc = "ca_close"
  /\ Commit(AfterCloseAllClose(Cur, self))

\* the awaited cleanupSession of line 178 completes
ResumeCloseSessionClose(self) ==
  /\ procs[self].pc = "cl_close"
  /\ Commit(AfterCloseSessionClose(Cur, self))

\* the cleanupSession the "disconnected" listener started (line 120)
\* completes: lines 152, 158-159
ResumeListener(b) ==
  /\ listeners[b] # 0
  /\ LET m1 == BrowserStops(Cur, listeners[b])
         m2 == Cold(m1, browsers[b].owner)
     IN Commit([m2 EXCEPT !.ls[b] = 0])

\* the browser process dies
Crash(b) ==
  /\ browsers[b].st = "open"
  /\ Commit(BrowserStops(Cur, b))

\* the page a session holds is closed from outside
ClosePage(pg) ==
  /\ \E o \in Objs : objs[o].page = pg
  /\ ~IsClosed(Cur, pg)
  /\ Commit([Cur EXCEPT !.cp = closedPages \cup {pg}])

\* ------------------------------------------------------------ the server
\* sessions.get(clientId), lines 431 and 663
Lookup(rg, key) == IF key \in ClientIds THEN rg[key] ELSE NoEntry

\* the connected flag left untested
ActiveIfPresent(e) == e.sessionId # 0

\* line 433 and line 664: session && session.connected
Active(e) == e.sessionId # 0 /\ e.connected

\* uuidv4(), lines 227-228: a value in use nowhere
IdsInUse ==
  {registry[c].sessionId : c \in ClientIds}
    \cup {sessions[i].id : i \in 1..Len(sessions)}
    \cup {procs[p].sid : p \in Calls} \cup {e.sessionId : e \in cleanup}
ClientsInUse ==
  {c \in ClientIds : registry[c].sessionId # 0}
    \cup {procs[p].client : p \in Calls} \cup {e.clientId : e \in cleanup}

\* server.on("connect"), lines 226-237
Connect(c, sid) ==
  /\ c \notin ClientsInUse
  /\ \A d \in ClientIds : d < c => d \in ClientsInUse
  /\ sid \notin IdsInUse
  /\ \A t \in SessionIds : t < sid => t \in IdsInUse
  /\ Commit([Cur EXCEPT
               !.rg[c] = [sessionId |-> sid, connected |-> TRUE],
               !.rt = [NoRet EXCEPT !.op = "connect", !.client = c]])

\* lines 242-249: every connected entry is marked, whichever connection ended
ClientsToDisconnect == {c \in ClientIds : Active(registry[c])}

\* server.on("disconnect"), lines 240-282, for the connection of client c,
\* up to setImmediate
Disconnect(c) ==
  /\ Active(registry[c])
  /\ Commit([Cur EXCEPT
               !.rg = [d \in ClientIds |->
                         IF d \in ClientsToDisconnect
                         THEN [registry[d] EXCEPT !.connected = FALSE]
                         ELSE registry[d]],
               !.cl = cleanup \cup
                        {[clientId |-> d, sessionId |-> registry[d].sessionId] :
                           d \in ClientsToDisconnect},
               !.rt = [NoRet EXCEPT !.op = "disconnect", !.client = c]])

LowestIdle(m) ==
  CHOOSE p \in Calls :
    m.pr[p].op = "idle" /\ \A q \in Calls : q < p => m.pr[q].op # "idle"

\* lines 254-258: clientsToDisconnect.map(async ...): each close is started
\* in turn and runs up to its first awaited engine operation
RECURSIVE CleanupLoop(_, _)
CleanupLoop(m, todo) ==
  IF todo = {} THEN m
  ELSE LET e == CHOOSE x \in todo : \A y \in todo : x.clientId <= y.clientId
       IN CleanupLoop(
            StartCloseSession(m, LowestIdle(m), e.sessionId, "disconnect",
                              e.clientId),
            todo \ {e})

\* the setImmediate callback of lines 252-278
DisconnectCleanup ==
  /\ cleanup # {}
  /\ Cardinality({p \in Calls : procs[p].op = "idle"}) >= Cardinality(cleanup)
  /\ Commit(CleanupLoop([Cur EXCEPT !.cl = {}], cleanup))

\* process.on("SIGTERM" / "SIGINT"), lines 285-294: gracefulShutdown() up
\* to await server.stop()
Sigterm ==
  /\ shutdown = "running"
  /\ Commit([Cur EXCEPT !.sd = "stopping"])

\* lines 298-300: the entries still marked connected
ActiveSessions(rg) ==
  {[clientId |-> c, sessionId |-> rg[c].sessionId] :
     c \in {d \in ClientIds : Active(rg[d])}}

\* lines 305-323: activeSessions.map(async ...): each close is started in
\* turn and runs up to its first awaited engine operation
RECURSIVE ShutdownLoop(_, _)
ShutdownLoop(m, todo) ==
  IF todo = {} THEN m
  ELSE LET e == CHOOSE x \in todo : \A y \in todo : x.clientId <= y.clientId
       IN ShutdownLoop(
            StartCloseSession(m, LowestIdle(m), e.sessionId, "shutdown",
                              e.clientId),
            todo \ {e})

\* lines 327-333 when no close is left to wait for: process.exit(0)
ExitWhenSettled(m) ==
  [m EXCEPT !.sd = IF \A q \in Calls : m.pr[q].tool # "shutdown"
                   THEN "exited" ELSE "closing"]

\* the awaited server.stop() of line 294 completes (ok) or throws: lines
\* 295-333
StopCompletes(ok) ==
  /\ shutdown = "stopping"
  /\ Cardinality({p \in Calls : procs[p].op = "idle"})
       >= Cardinality(ActiveSessions(registry))
  /\ IF ok
     THEN Commit(ExitWhenSettled(ShutdownLoop(Cur, ActiveSessions(registry))))
     ELSE Commit([Cur EXCEPT !.sd = "exited"])

\* the awaited server.stop() of line 294 never completes
StopHangs ==
  /\ shutdown = "stopping"
  /\ Commit([Cur EXCEPT !.sd = "hung"])

\* a tool that acts on the page (playwright_navigate, lines 426-451, and the
\* tools after it), arriving with key in context.session.id
ToolCall(self, key, bt) ==
  /\ FreeSlot(self)
  /\ LET e == Lookup(registry, key)
     IN IF Active(e)
        THEN /\ CanStart(e.sessionId)
             /\ Commit(StartGetOrCreate(Cur, self, e.sessionId, bt, "tool",
                                        key))
        ELSE Commit([Cur EXCEPT
                       !.rt = [NoRet EXCEPT !.op = "tool",
                                            !.res = "nosession",
                                            !.client = key]])

\* playwright_close, lines 657-673
ToolClose(self, key) ==
  /\ FreeSlot(self)
  /\ LET e == Lookup(registry, key)
     IN IF Active(e)
        THEN Commit(StartCloseSession(Cur, self, e.sessionId,
                                      "playwright_close", key))
        ELSE Commit([Cur EXCEPT
                       !.rt = [NoRet EXCEPT !.op = "playwright_close",
                                            !.res = "success",
                                            !.client = key]])

\* time passes
Tick ==
  /\ now < MaxTime
  /\ now' = now + 1
  /\ emitted' = <<>>
  /\ ret' = NoRet
  /\ leaked' = FALSE
  /\ UNCHANGED <<maxSessions, sessions, objs, browsers, listeners,
                 closedPages, registry, cleanup, procs, shutdown>>

Init ==
  /\ maxSessions \in 1..MaxCap
  /\ sessions = <<>>
  /\ objs = [o \in Objs |-> NoObj]
  /\ browsers = [b \in Browsers |-> NoBrowser]
  /\ listeners = [b \in Browsers |-> NoListener]
  /\ closedPages = {}
  /\ registry = [c \in ClientIds |-> NoEntry]
  /\ cleanup = {}
  /\ leaked = FALSE
  /\ now = 0
  /\ procs = [p \in Calls |-> Idle]
  /\ emitted = <<>>
  /\ ret = NoRet
  /\ shutdown = "running"

\* no call is in flight
Quiet == \A p \in Calls : procs[p].op = "idle"

\* The awaited engine operations of a warming or of a closeSession in
\* flight complete.
Resume ==
  \/ \E self \in Calls, ok \in BOOLEAN : ResumeLaunch(self, ok)
  \/ \E self \in Calls, ok \in BOOLEAN : ResumeNewContext(self, ok)
  \/ \E self \in Calls, ok \in BOOLEAN : ResumeNewPage(self, ok)
  \/ \E self \in Calls : ResumeEnsureCleanup(self)
  \/ \E self \in Calls : ResumeCloseSessionClose(self)

InitOverlap == Init /\ maxSessions = OverlapCap

\* SessionManager under calls that overlap, the clock running.
Next ==
  \/ \E self \in Calls, sid \in SessionIds :
       GetOrCreateSession(self, sid, "none")
  \/ \E self \in Calls : CleanupInactiveSessions(self)
  \/ \E self \in Calls, sid \in SessionIds : CloseSession(self, sid)
  \/ \E self \in Calls : CloseAllSessions(self)
  \/ Resume
  \/ \E self \in Calls, ok \in BOOLEAN : ResumeHealContext(self, ok)
  \/ \E self \in Calls, ok \in BOOLEAN : ResumeHealPage(self, ok)
  \/ \E self \in Calls : ResumeSweepClose(self)
  \/ \E self \in Calls : ResumeCloseAllClose(self)
  \/ \E b \in Browsers : ResumeListener(b)
  \/ Tick

Spec == InitOverlap /\ [][Next]_vars

\* SessionManager under calls made one after the other, with browser
\* crashes, pages closed from outside, browser kinds and the clock.  Then a
\* page is missing only on a browser that has its context, and a browser
\* that stops is the one its session holds, so that no listener waits.
NextSeq ==
  \/ Quiet /\ \E self \in Calls, sid \in SessionIds, bt \in SettingsInputs :
                GetOrCreateSession(self, sid, bt)
  \/ Quiet /\ \E self \in Calls : CleanupInactiveSessions(self)
  \/ Quiet /\ \E self \in Calls, sid \in SessionIds : CloseSession(self, sid)
  \/ Quiet /\ \E self \in Calls : CloseAllSessions(self)
  \/ Resume
  \/ \E self \in Calls, ok \in BOOLEAN : ResumeHealPage(self, ok)
  \/ \E self \in Calls : ResumeSweepClose(self)
  \/ \E self \in Calls : ResumeCloseAllClose(self)
  \/ \E b \in Browsers : Crash(b)
  \/ \E pg \in Pages : ClosePage(pg)
  \/ Tick

SpecSeq == Init /\ [][NextSeq]_vars

\* a getOrCreateSession is in flight
Creating == \E p \in Calls : procs[p].op = "goc"
\* a closeAllSessions is in flight
InCloseAll == \E p \in Calls : procs[p].op = "closeAll"

\* SessionManager under calls that overlap, closeAllSessions running with
\* no session created meanwhile: it starts when no getOrCreateSession is in
\* flight and none starts before it has returned.
NextCloseAll ==
  \/ ~InCloseAll /\ \E self \in Calls, sid \in SessionIds :
                      GetOrCreateSession(self, sid, "none")
  \/ \E self \in Calls : CleanupInactiveSessions(self)
  \/ \E self \in Calls, sid \in SessionIds : CloseSession(self, sid)
  \/ ~Creating /\ \E self \in Calls : CloseAllSessions(self)
  \/ Resume
  \/ \E self \in Calls, ok \in BOOLEAN : ResumeHealContext(self, ok)
  \/ \E self \in Calls, ok \in BOOLEAN : ResumeHealPage(self, ok)
  \/ \E self \in Calls : ResumeSweepClose(self)
  \/ \E self \in Calls : ResumeCloseAllClose(self)
  \/ \E b \in Browsers : ResumeListener(b)
  \/ Tick

SpecCloseAll == InitOverlap /\ [][NextCloseAll]_vars

\* The server: connections, tool calls made one after the other, and
\* disconnects with their cleanup, over the SessionManager of its
\* ToolHandler (whose maxSessions, line 207, exceeds the connections here).
NextServer ==
  \/ \E c \in ClientIds, sid \in SessionIds : Connect(c, sid)
  \/ \E c \in ClientIds : Disconnect(c)
  \/ DisconnectCleanup
  \/ Quiet /\ \E self \in Calls, key \in Keys, bt \in SettingsInputs :
                ToolCall(self, key, bt)
  \/ Quiet /\ \E self \in Calls, key \in Keys : ToolClose(self, key)
  \/ Resume

InitServer == Init /\ maxSessions = MaxCap

SpecServer == InitServer /\ [][NextServer]_vars

\* the process is there and no signal has come
Running == shutdown = "running"

\* The server with SIGTERM / SIGINT: what arrives from outside arrives
\* before the signal; once the process has exited nothing runs.
NextShutdown ==
  \/ Running /\ \E c \in ClientIds, sid \in SessionIds : Connect(c, sid)
  \/ Running /\ \E c \in ClientIds : Disconnect(c)
  \/ shutdown # "exited" /\ DisconnectCleanup
  \/ Running /\ Quiet /\ \E self \in Calls, key \in Keys :
                            ToolCall(self, key, "none")
  \/ shutdown # "exited" /\ Resume
  \/ Sigterm
  \/ \E ok \in BOOLEAN : StopCompletes(ok)
  \/ StopHangs

\* The event loop runs what is ready: an awaited operation completes, the
\* setImmediate callback runs, server.stop() resolves or rejects unless it
\* is the one that never does (StopHangs).  What arrives from outside is
\* under no obligation to arrive.
EventLoop ==
  /\ WF_vars(shutdown # "exited" /\ Resume)
  /\ WF_vars(shutdown # "exited" /\ DisconnectCleanup)
  /\ WF_vars(\E ok \in BOOLEAN : StopCompletes(ok))

SpecShutdown == InitServer /\ [][NextShutdown]_vars /\ EventLoop

\* SessionManager under warmings that overlap and name browser kinds, with
\* closeSession between them and browsers free to crash.
NextKinds ==
  \/ \E self \in Calls, sid \in SessionIds, bt \in SettingsInputs :
       GetOrCreateSession(self, sid, bt)
  \/ \E self \in Calls, sid \in SessionIds : CloseSession(self, sid)
  \/ Resume
  \/ \E self \in Calls, ok \in BOOLEAN : ResumeHealContext(self, ok)
  \/ \E self \in Calls, ok \in BOOLEAN : ResumeHealPage(self, ok)
  \/ \E b \in Browsers : ResumeListener(b)
  \/ \E b \in Browsers : Crash(b)

SpecKinds == InitOverlap /\ [][NextKinds]_vars

\* context.session.id, lines 430 and 662: what the framework holds for a
\* connection.  server.on("connect") never reads its event and stores its
\* entry under a uuidv4() of its own (lines 228-230), a value in use nowhere
\* else, so the framework's value is undefined (0) or a value under which
\* no connect handler has stored or is about to store anything.
MaxFrameworkIds == 2
FrameworkIds == (MaxClients + 1)..(MaxClients + MaxFrameworkIds)
ContextSessionIds == (Keys \cup FrameworkIds) \ ClientsInUse

\* a page tool arriving on the connection whose connect event stored the
\* registry entry c
ConnectionToolCall(self, c, key, bt) ==
  /\ Active(registry[c])
  /\ key \in ContextSessionIds
  /\ ToolCall(self, key, bt)

\* playwright_close arriving on the connection whose connect event stored
\* the registry entry c
ConnectionToolClose(self, c, key) ==
  /\ Active(registry[c])
  /\ key \in ContextSessionIds
  /\ ToolClose(self, key)

\* The server as its connections drive it: every tool call arrives on a
\* connection that has been accepted and has not ended, with the key that
\* connection's context holds.
NextConnection ==
  \/ \E c \in ClientIds, sid \in SessionIds : Connect(c, sid)
  \/ \E c \in ClientIds : Disconnect(c)
  \/ DisconnectCleanup
  \/ \E self \in Calls, c \in ClientIds, key \in Keys \cup FrameworkIds,
        bt \in SettingsInputs :
       ConnectionToolCall(self, c, key, bt)
  \/ \E self \in Calls, c \in ClientIds, key \in Keys \cup FrameworkIds :
       ConnectionToolClose(self, c, key)
  \/ Tick

SpecConnection == InitServer /\ [][NextConnection]_vars

\* ================================================================ claims
\* Shorthands of the claims: taken from the state, not from the operators
\* of the model above.
EntryIds(ss) == {ss[i].id : i \in 1..Len(ss)}
AgedAt(t, o) == t - objs[o].lastActivity > sessionTimeout
\* the step leaves the map, every session in it and every browser launched
\* for one of them as they were, and starts no browser
SessionsUntouched ==
  /\ sessions' = sessions
  /\ \A i \in 1..Len(sessions) :
       /\ objs'[sessions[i].obj] = objs[sessions[i].obj]
       /\ \A b \in BrowsersOf(sessions[i].obj) : browsers'[b] = browsers[b]
  /\ \A b \in Browsers : browsers'[b].st = "open" => browsers[b].st = "open"
\* the step starts or ends a getOrCreateSession for sid
GocFor(sid) ==
  \/ ret'.op = "goc" /\ ret'.sid = sid
  \/ \E p \in Calls : procs'[p].op = "goc" /\ procs'[p].sid = sid

\* ---- C1
\* C1: in every reachable state, under any interleaving of
\* getOrCreateSession, cleanupInactiveSessions, closeSession and
\* closeAllSessions, the session map holds at most maxSessions entries.
C1_MapWithinMaxSessions == Len(sessions) <= maxSessions

\* a new id was rejected at a full map while another call is in flight
C1_Witness ==
  /\ Len(sessions) = maxSessions
  /\ ret.op = "goc" /\ ret.res = "capacity"
  /\ \E p \in Calls : procs[p].op # "idle"

\* ---- C2
\* C2: with calls made one after the other: when the map holds maxSessions
\* entries, none of them older than sessionTimeout, getOrCreateSession for
\* an id not in the map throws the capacity error and leaves the map as it
\* is; and an id enters a map only if the map had room before the step or
\* the step removed an entry that was older than sessionTimeout when its
\* sweep began.
C2_CapacityRejectsUntilRoom ==
  [][\A sid \in SessionIds :
       /\ ( /\ Quiet
            /\ Len(sessions) = maxSessions
            /\ \A i \in 1..Len(sessions) : ~AgedAt(now, sessions[i].obj)
            /\ sid \notin EntryIds(sessions)
            /\ GocFor(sid) )
          => /\ ret'.op = "goc" /\ ret'.res = "capacity"
             /\ sessions' = sessions
       /\ (sid \notin EntryIds(sessions) /\ sid \in EntryIds(sessions'))
          => \/ Len(sessions) < maxSessions
             \/ \E i \in 1..Len(sessions), p \in Calls :
                  /\ sessions[i].id \notin EntryIds(sessions')
                  /\ Quiet \/ procs[p].pc = "sw_close"
                  /\ AgedAt(IF Quiet THEN now ELSE procs[p].snow,
                            sessions[i].obj)
    ]_vars

\* a new id was rejected at a full map of sessions all within the timeout,
\* the clock having run
C2_Witness ==
  /\ ret.op = "goc" /\ ret.res = "capacity"
  /\ Quiet
  /\ Len(sessions) = maxSessions
  /\ now > 0
  /\ \A i \in 1..Len(sessions) : ~AgedAt(now, sessions[i].obj)

\* ---- C3
\* C3: whenever getOrCreateSession returns a SessionState, that state is
\* warm at the return: its browser is set and connected, its page is set
\* and open.
C3_ReturnedStateIsWarm ==
  (ret.op = "goc" /\ ret.res = "ok") =>
     /\ objs[ret.obj].browser # 0
     /\ browsers[objs[ret.obj].browser].st = "open"
     /\ objs[ret.obj].page # 0
     /\ objs[ret.obj].page \notin closedPages
     /\ browsers[PageBrowser(objs[ret.obj].page)].st = "open"

\* ---- C4
\* C4: with calls made one after the other: closeSession for an id that is
\* not in the map changes nothing and emits nothing, and when closeSession
\* returns its id is not in the map, so that a second closeSession after a
\* first is such a call.
C4_CloseSessionIdempotent ==
  [][\A sid \in SessionIds :
       /\ ( /\ Quiet
            /\ sid \notin EntryIds(sessions)
            /\ ret'.op = "close" /\ ret'.sid = sid )
          => /\ emitted' = <<>>
             /\ ret'.res = "noop"
             /\ SessionsUntouched
             /\ UNCHANGED <<listeners, procs>>
       /\ (ret'.op = "close" /\ ret'.sid = sid)
          => sid \notin EntryIds(sessions')
    ]_vars

\* closeSession has returned for an id that was not in the map, next to a
\* session it left alone
C4_Witness ==
  /\ ret.op = "close" /\ ret.res = "noop"
  /\ Len(sessions) > 0
  /\ emitted = <<>>

\* ---- C5
\* C5: sessionClosed is emitted exactly once for a destruction: every
\* emission of an id comes in the step that removes that id's entry from
\* the map, however the destroying calls interleave.
C5_OneEmissionPerDestruction ==
  [][\A i \in 1..Len(emitted') :
       /\ emitted'[i] \in EntryIds(sessions)
       /\ emitted'[i] \notin EntryIds(sessions')
    ]_vars

\* ---- C6
\* C6: after getOrCreateSession with settings that name a browserType has
\* returned a session, the session's currentBrowserType is that type; so a
\* warm chromium session asked for firefox has been relaunched as firefox.
C6_KindFollowsRequest ==
  (ret.op = "goc" /\ ret.res = "ok" /\ ret.bt # "none") =>
     objs[ret.obj].currentBrowserType = ret.bt

\* ---- C7
\* the step runs code of cleanupInactiveSessions whose Date.now() was t: it
\* starts the sweep (of the timer, or of a getOrCreateSession at a full
\* map) or resumes it after an awaited close
InSweep(t) ==
  \/ /\ Quiet
     /\ t = now
     /\ \/ ret'.op = "sweep"
        \/ \E p \in Calls : procs'[p].op = "sweep"
        \/ /\ Len(sessions) >= maxSessions
           /\ \E sid \in SessionIds \ EntryIds(sessions) : GocFor(sid)
  \/ \E p \in Calls :
       /\ procs[p].pc = "sw_close"
       /\ t = procs[p].snow
       /\ \/ ret'.op # "none"
          \/ \A q \in Calls : procs'[q].pc # "sw_close"
          \/ \E q \in Calls : procs'[q].pc = "sw_close"
                               /\ procs'[q].cur # procs[p].cur

C8_DisconnectLeavesOthers ==
  [][ret'.op = "disconnect" =>
       \A d \in ClientIds \ {ret'.client} : registry'[d] = registry[d]
    ]_vars

\* ---- C9
\* C9: warming is serialized per session: no SessionState ever has two
\* browsers launched for it running at once.
C9_OneBrowserPerSession ==
  \A o \in Objs :
    Cardinality({b \in BrowsersOf(o) : browsers[b].st = "open"}) <= 1

\* ---- C10
\* C10: a tool call arriving with a key that has no registry entry, or an
\* entry not marked connected, starts no SessionManager call and changes
\* neither the session map, the sessions, the browsers nor the registry; a
\* page tool throws "No active session found for connection" and
\* playwright_close returns its success text.
C10_NoActiveSession ==
  [][\A k \in Keys :
       ( /\ Quiet
         /\ k \in ClientIds =>
              (registry[k].sessionId = 0 \/ ~registry[k].connected)
         /\ \/ ret'.op \in {"tool", "playwright_close"} /\ ret'.client = k
            \/ \E p \in Calls :
                 /\ procs'[p].tool \in {"tool", "playwright_close"}
                 /\ procs'[p].client = k )
       => /\ \/ ret'.op = "tool" /\ ret'.res = "nosession"
             \/ ret'.op = "playwright_close" /\ ret'.res = "success"
          /\ emitted' = <<>>
          /\ SessionsUntouched
          /\ UNCHANGED <<listeners, procs, registry, cleanup>>
    ]_vars

\* a page tool was refused on an entry that a disconnect has marked, its
\* session still in the SessionManager's map
C10_Witness ==
  /\ ret.op = "tool" /\ ret.res = "nosession"
  /\ ret.client \in ClientIds
  /\ registry[ret.client].sessionId \in EntryIds(sessions)
  /\ ~registry[ret.client].connected

\* the session of SessionState o is warm: browser set and connected, page
\* set and open
WarmState(o) ==
  /\ objs[o].browser # 0
  /\ browsers[objs[o].browser].st = "open"
  /\ objs[o].page # 0
  /\ objs[o].page \notin closedPages
  /\ browsers[PageBrowser(objs[o].page)].st = "open"

\* ---- C11
\* C11: a page tool that passes no browser settings, arriving for a
\* connected client whose session is warm, returns without error in the
\* same run, with no teardown and no launch: the session keeps its
\* browser, its page and its browser type, that browser is as it was, no
\* browser is started and nothing is emitted.
C11_SettinglessToolKeepsBrowser ==
  [][\A k \in ClientIds : \A i \in 1..Len(sessions) :
       ( /\ Quiet
         /\ registry[k].connected
         /\ registry[k].sessionId = sessions[i].id
         /\ WarmState(sessions[i].obj)
         /\ \/ ret'.op = "tool" /\ ret'.client = k /\ ret'.bt = "none"
            \/ \E p \in Calls : /\ procs'[p].tool = "tool"
                                /\ procs'[p].client = k
                                /\ procs'[p].bt = "none" )
       => LET o == sessions[i].obj
          IN /\ ret'.op = "tool" /\ ret'.res = "ok"
             /\ sessions' = sessions
             /\ objs'[o].browser = objs[o].browser
             /\ objs'[o].page = objs[o].page
             /\ objs'[o].currentBrowserType = objs[o].currentBrowserType
             /\ \A b \in BrowsersOf(o) : browsers'[b] = browsers[b]
             /\ \A b \in Browsers :
                  browsers'[b].st = "open" => browsers[b].st = "open"
             /\ closedPages' = closedPages
             /\ emitted' = <<>>
    ]_vars

\* a page tool without settings has been served by a session that an
\* earlier call had warmed on firefox
C11_Witness ==
  /\ ret.op = "tool" /\ ret.res = "ok" /\ ret.bt = "none"
  /\ Quiet
  /\ WarmState(ret.obj)
  /\ objs[ret.obj].currentBrowserType = "firefox"
  /\ browsers[objs[ret.obj].browser].kind = "firefox"

\* ---- C12
\* C12: shutdown cannot hang: once SIGTERM or SIGINT has started
\* gracefulShutdown, process exit is eventually reached, even if
\* server.stop() never completes.
C12_ShutdownReachesExit == (shutdown # "running") ~> (shutdown = "exited")

\* the browsers launched for SessionStates of session id sid that run
OpenOfSid(br, sid) ==
  {b \in Browsers : ObjOfBrowser(b) \in ObjsOf(sid) /\ br[b].st = "open"}

\* ---- C13
\* C13: on every destruction path the browser is closed before the map
\* entry goes and sessionClosed comes with the removal: a step that removes
\* an entry emits its id, and the browser its SessionState held, if it
\* ran, has been stopped by that step (the map entry is never removed
\* while the session's browser is still open).
C13_ClosedBeforeRemoved ==
  [][\A i \in 1..Len(sessions) :
       sessions[i].id \notin EntryIds(sessions') =>
         /\ \E k \in 1..Len(emitted') : emitted'[k] = sessions[i].id
         /\ LET b == objs[sessions[i].obj].browser
            IN (b # 0 /\ browsers[b].st = "open") =>
                 Cardinality(OpenOfSid(browsers', sessions[i].id))
                   < Cardinality(OpenOfSid(browsers, sessions[i].id))
    ]_vars

\* ---- C14
\* C14: in every reachable state, between the suspension points of
\* ensureBrowser and cleanupSession as well, a SessionState of the map
\* whose browser is unset has its page unset.
C14_PageOnlyWithBrowser ==
  \A i \in 1..Len(sessions) :
     objs[sessions[i].obj].browser = 0 => objs[sessions[i].obj].page = 0

\* ---- C15
\* C15: with calls made one after the other: when warming fails, the
\* failure reaches the caller of getOrCreateSession only after the
\* teardown; the session is then still in the map and cold (browser and
\* page unset, no browser of it running); and getOrCreateSession on an id
\* whose session is cold goes to a fresh launch.
C15_FailedWarmingLeavesCold ==
  [][/\ (ret'.op = "goc" /\ ret'.res = "error") =>
          \E j \in 1..Len(sessions') :
             /\ sessions'[j].id = ret'.sid
             /\ sessions'[j].obj = ret'.obj
             /\ objs'[ret'.obj].browser = 0
             /\ objs'[ret'.obj].page = 0
             /\ OpenOfSid(browsers', ret'.sid) = {}
     /\ \A p \in Calls :
          procs[p].pc = "eb_catch" =>
             \/ ret'.op = "goc" /\ ret'.res = "error"
             \/ procs'[p] = procs[p]
     /\ \A i \in 1..Len(sessions) :
          ( /\ Quiet
            /\ objs[sessions[i].obj].browser = 0
            /\ GocFor(sessions[i].id) )
          => \E p \in Calls : /\ procs'[p].pc = "eb_launch"
                               /\ procs'[p].sid = sessions[i].id
    ]_vars

\* a getOrCreateSession without settings has thrown after a failed warming
\* of a session made for firefox by an earlier call; the session is in the
\* map, cold
C15_Witness ==
  /\ ret.op = "goc" /\ ret.res = "error"
  /\ Quiet
  /\ \E j \in 1..Len(sessions) :
       /\ sessions[j].id = ret.sid
       /\ objs[sessions[j].obj].browser = 0
       /\ objs[sessions[j].obj].page = 0
       /\ objs[sessions[j].obj].currentBrowserType = "firefox"
       /\ ret.bt = "none"

\* ---- C16
\* C16: page self-heal, with calls made one after the other: when the page
\* of a session has been closed from outside and its browser still runs,
\* getOrCreateSession keeps that browser, tears nothing down and launches
\* nothing, and only asks it for a page (for a context first when it has
\* none); when that succeeds the call returns the session warm on the
\* same browser.
C16_PageSelfHeal ==
  [][/\ \A i \in 1..Len(sessions) :
          LET o == sessions[i].obj
              b == objs[o].browser
          IN ( /\ Quiet
               /\ b # 0 /\ browsers[b].st = "open"
               /\ objs[o].page \in closedPages
               /\ GocFor(sessions[i].id) )
             => /\ \E p \in Calls :
                     /\ procs'[p].pc = IF browsers[b].ctx THEN "eb_heal_page"
                                                          ELSE "eb_heal_ctx"
                     /\ procs'[p].b = b
                /\ sessions' = sessions
                /\ objs'[o].browser = b
                /\ browsers' = browsers
                /\ emitted' = <<>>
     /\ \A p \in Calls :
          ( /\ procs[p].pc = "eb_heal_page"
            /\ ret'.op = "goc" /\ ret'.res = "ok" )
          => LET o == ret'.obj
             IN /\ o = procs[p].obj
                /\ objs'[o].browser = procs[p].b
                /\ browsers'[procs[p].b].st = "open"
                /\ objs'[o].page # 0
                /\ objs'[o].page \notin closedPages'
                /\ PageBrowser(objs'[o].page) = procs[p].b
                /\ \A b \in Browsers :
                     browsers'[b].st = "open" => browsers[b].st = "open"
    ]_vars

\* a getOrCreateSession waits for the new page it asked of the running
\* browser of a session whose page was closed from outside
C16_Witness ==
  \E p \in Calls :
     /\ procs[p].op = "goc" /\ procs[p].pc = "eb_heal_page"
     /\ objs[procs[p].obj].browser = procs[p].b
     /\ browsers[procs[p].b].st = "open"
     /\ objs[procs[p].obj].page \in closedPages

\* ---- C17
\* C17: a crashed browser leaves no stale warm state: when the browser a
\* session of the map holds stops while the entry stays, the session is
\* cold (browser and page unset) once the listener has run; a
\* getOrCreateSession on an id whose session holds no running browser goes
\* to a launch; and no getOrCreateSession returns a session whose browser
\* does not run.
C17_CrashLeavesCold ==
  [][/\ \A i \in 1..Len(sessions) :
          LET o == sessions[i].obj
              b == objs[o].browser
          IN ( /\ b # 0 /\ browsers[b].st = "open"
               /\ browsers'[b].st # "open"
               /\ \E j \in 1..Len(sessions') : sessions'[j] = sessions[i] )
             => /\ objs'[o].browser = 0
                /\ objs'[o].page = 0
     /\ \A i \in 1..Len(sessions) :
          LET o == sessions[i].obj
              b == objs[o].browser
          IN ( /\ Quiet
               /\ b = 0 \/ browsers[b].st # "open"
               /\ GocFor(sessions[i].id) )
             => \E p \in Calls : /\ procs'[p].pc = "eb_launch"
                                  /\ procs'[p].obj = o
     /\ (ret'.op = "goc" /\ ret'.res = "ok") =>
          /\ objs'[ret'.obj].browser # 0
          /\ browsers'[objs'[ret'.obj].browser].st = "open"
    ]_vars

\* the browser of the only session has crashed: the session is in the map,
\* cold, with no call in flight and none just returned
C17_Witness ==
  /\ Quiet
  /\ ret = NoRet
  /\ now = 0
  /\ Len(sessions) = 1
  /\ objs[sessions[1].obj].browser = 0
  /\ objs[sessions[1].obj].page = 0

\* ---- C18
\* C18: closeAllSessions with no session created meanwhile, whatever
\* closeSession or sweep overlaps it: while it runs no entry is added and
\* sessionClosed is emitted exactly once for each entry that leaves the
\* map and for nothing else, and when it returns the map is empty and no
\* browser launched for a session runs.
C18_CloseAllSessionsDrains ==
  [][InCloseAll =>
       /\ EntryIds(sessions') \subseteq EntryIds(sessions)
       /\ \A k \in 1..Len(emitted') :
            /\ emitted'[k] \in EntryIds(sessions) \ EntryIds(sessions')
            /\ \A l \in 1..Len(emitted') : emitted'[l] = emitted'[k] => l = k
       /\ \A id \in EntryIds(sessions) \ EntryIds(sessions') :
            \E k \in 1..Len(emitted') : emitted'[k] = id
       /\ ret'.op = "closeAll" =>
            /\ sessions' = <<>>
            /\ \A b \in Browsers : browsers'[b].st # "open"
  ]_vars

\* ---- C19
\* C19: with calls made one after the other: in the step in which
\* getOrCreateSession throws the capacity error, the map has no entry for
\* the rejected id afterwards, no browser has been started, nothing is
\* emitted, and every session that was active within sessionTimeout of the
\* call's sweep is still in the map with its SessionState (browser, page)
\* and its browser as they were.
C19_CapacityErrorFrame ==
  [][(ret'.op = "goc" /\ ret'.res = "capacity") =>
       /\ ret'.sid \notin EntryIds(sessions')
       /\ \A b \in Browsers :
            browsers'[b].st = "open" => browsers[b].st = "open"
       /\ OpenOfSid(browsers', ret'.sid) = {}
       /\ emitted' = <<>>
       /\ \A i \in 1..Len(sessions), p \in Calls :
            LET e == sessions[i]
                b == objs[e.obj].browser
                t == IF Quiet THEN now ELSE procs[p].snow
            IN (Quiet \/ procs[p].pc = "sw_close") /\ ~AgedAt(t, e.obj) =>
                 /\ \E j \in 1..Len(sessions') : sessions'[j] = e
                 /\ objs'[e.obj] = objs[e.obj]
                 /\ b # 0 => browsers'[b] = browsers[b]
  ]_vars

\* a new id has been rejected at a full map in which a session holds a
\* running browser and a page, the clock having run
C19_Witness ==
  /\ ret.op = "goc" /\ ret.res = "capacity"
  /\ ret.sid \notin EntryIds(sessions)
  /\ now > 0
  /\ \E i \in 1..Len(sessions) : WarmState(sessions[i].obj)

\* ---- C20
\* C20: isolation, under any interleaving of the calls: two different
\* SessionStates never hold the same browser or the same page, two map
\* entries never hold the same SessionState, and the browser a
\* SessionState holds, and the browser its page was opened on, are browsers
\* launched for that SessionState.
C20_Isolation ==
  /\ \A i, j \in 1..Len(sessions) :
       sessions[i].obj = sessions[j].obj => i = j
  /\ \A o \in Objs :
       /\ objs[o].browser # 0 =>
            /\ browsers[objs[o].browser].owner = o
            /\ \A o2 \in Objs \ {o} : objs[o2].browser # objs[o].browser
       /\ objs[o].page # 0 =>
            /\ browsers[PageBrowser(objs[o].page)].owner = o
            /\ \A o2 \in Objs \ {o} : objs[o2].page # objs[o].page

\* two SessionStates of the same id exist, the one in the map and one a
\* call in flight still holds, each with a running browser of its own
C20_Witness ==
  \E o1, o2 \in Objs :
    /\ o1 # o2
    /\ \E i \in 1..Len(sessions) : sessions[i].obj = o1
    /\ \E p \in Calls : procs[p].obj = o2
    /\ objs[o1].browser # 0 /\ browsers[objs[o1].browser].st = "open"
    /\ objs[o2].browser # 0 /\ browsers[objs[o2].browser].st = "open"

\* ---- C21
\* C21: a page tool arriving on a connection that was accepted and has not
\* ended finds the registry entry its connect event stored and is
\* dispatched with that entry's session id: the step starts or completes a
\* getOrCreateSession for the session id assigned at connect.
C21_ToolCallFindsItsEntry ==
  [][\A self \in Calls, c \in ClientIds, key \in Keys \cup FrameworkIds,
        bt \in SettingsInputs :
       ConnectionToolCall(self, c, key, bt) =>
         \/ \E p \in Calls : /\ procs'[p].tool = "tool"
                             /\ procs'[p].sid = registry[c].sessionId
         \/ ret'.op = "tool" /\ ret'.sid = registry[c].sessionId
    ]_vars

\* ---- C22
\* no SessionManager operation is in flight: no call, and no cleanupSession
\* started by a "disconnected" listener
Quiescent == Quiet /\ \A b \in Browsers : listeners[b] = NoListener

\* C22: no browser is leaked, however the calls interleave: in every
\* quiescent state each running browser is session.browser of exactly one
\* SessionState that is in the map, and no running browser has ever gone
\* out of the reach of the code (which it stays for good, so that it runs
\* in every quiescent state that follows).
C22_NoBrowserLeaked ==
  /\ ~leaked
  /\ Quiescent =>
       \A b \in Browsers :
         browsers[b].st = "open" =>
           Cardinality({i \in 1..Len(sessions) :
                          objs[sessions[i].obj].browser = b}) = 1

\* ---- C23
\* C23: under warmings that overlap and ask for different kinds: whenever a
\* SessionState has a browser set, its currentBrowserType is the kind of
\* engine that browser was launched with.
C23_KindMatchesBrowser ==
  \A o \in Objs :
    objs[o].browser # 0 =>
      objs[o].currentBrowserType = browsers[objs[o].browser].kind

\* a SessionState holds a firefox browser while a chromium browser launched
\* for it by an overlapping warming runs as well
C23_Witness ==
  \E o \in Objs, b \in Browsers :
    /\ objs[o].browser # 0
    /\ b # objs[o].browser
    /\ browsers[objs[o].browser].st = "open"
    /\ browsers[objs[o].browser].kind = "firefox"
    /\ browsers[b].st = "open"
    /\ browsers[b].owner = o
    /\ browsers[b].kind = "chromium"

\* ---- C24
\* C24: a getOrCreateSession that passes no browserType never changes the
\* engine kind of the session it is called for: in every step of such a
\* call the session's currentBrowserType stays what it was, so a session
\* recorded as firefox that went cold is warmed again as firefox.
C24_AbsentSettingsKeepKind ==
  [][\A i \in 1..Len(sessions), p \in Calls :
       LET e == sessions[i]
       IN (procs[p].op = "goc" /\ procs[p].sid = e.id /\ procs[p].bt = "none")
            => \A j \in 1..Len(sessions') :
                 sessions'[j].id = e.id =>
                   objs'[sessions'[j].obj].currentBrowserType
                     = objs[e.obj].currentBrowserType
    ]_vars

\* ---- C25
\* C25: with calls made one after the other: a getOrCreateSession whose
\* warming fails takes no entry out of the map, its own included, whether
\* it made the entry or found it; an entry leaves the map only in a step
\* that emits sessionClosed for it; and a map full of sessions within the
\* timeout, none of which has a browser running, rejects a new id with the
\* capacity error and launches nothing.
C25_FailedCreationCountsTowardLimit ==
  [][/\ (ret'.op = "goc" /\ ret'.res = "error") =>
          /\ ret'.sid \in EntryIds(sessions')
          /\ EntryIds(sessions) \subseteq EntryIds(sessions')
     /\ \A id \in EntryIds(sessions) \ EntryIds(sessions') :
          \E k \in 1..Len(emitted') : emitted'[k] = id
     /\ \A sid \in SessionIds \ EntryIds(sessions) :
          ( /\ Quiet
            /\ Len(sessions) = maxSessions
            /\ \A i \in 1..Len(sessions) :
                 /\ ~AgedAt(now, sessions[i].obj)
                 /\ objs[sessions[i].obj].browser = 0
            /\ GocFor(sid) )
          => /\ ret'.op = "goc" /\ ret'.res = "capacity"
             /\ Len(sessions') = maxSessions
             /\ \A p \in Calls : procs'[p].op = "idle"
    ]_vars

\* a new id has been rejected at a full map while no browser runs at all
\* and no session in the map has a browser or a page: every entry is cold,
\* as a failed first warming leaves it
C25_Witness ==
  /\ ret.op = "goc" /\ ret.res = "capacity"
  /\ Len(sessions) = maxSessions
  /\ \A b \in Browsers : browsers[b].st # "open"
  /\ \A i \in 1..Len(sessions) :
       /\ objs[sessions[i].obj].browser = 0
       /\ objs[sessions[i].obj].page = 0

\* ---- C26
\* C26: when playwright_close, arriving on a connection that was accepted
\* and has not ended, has returned its success text, the registry no longer
\* has the entry made for that connection at its connect event, and the
\* session of that entry is not in the SessionManager's map.
C26_CloseRemovesEntry ==
  [][\A self \in Calls, c \in ClientIds, key \in Keys \cup FrameworkIds :
       (ConnectionToolClose(self, c, key) /\ ret'.op = "playwright_close")
         => /\ ret'.res = "success"
            /\ registry'[c] = NoEntry
            /\ registry[c].sessionId \notin EntryIds(sessions')
    ]_vars

====
